---- MODULE Spec2Model ----
(***************************************************************************)
(* Radiology DApp backend: the procedure reconciliation pipeline           *)
(* (create_procedure = durable local write + best-effort ledger anchor),   *)
(* consent upload, and FHIR document generation with its registry table.   *)
(*                                                                         *)
(* Python values are modelled as follows.                                  *)
(*   Optional[T]   : None is <<>>, a present value v is <<v>>.             *)
(*   f-strings     : string concatenation, f"claim-{id}" is                *)
(*                   "claim-" \o ToString(id).                             *)
(*   sha256        : the digest of x is the string "sha256(x)".            *)
(* A table is the sequence of its rows in insertion order; the primary key *)
(* of a row is its index (autoincrement, no row is ever deleted).          *)
(* The created_at / updated_at columns are left out: no handler branches   *)
(* on them.  The consent file written to disk by upload_consent is left    *)
(* out as well (the handler never reads it back).                          *)
(***************************************************************************)
EXTENDS Integers, Sequences, FiniteSets, TLC

VARIABLES
    env,            \* os.environ of the process: PRACTITIONER_PRIVATE_KEY, CONTRACT_ADDRESS
    phase,          \* "startup" until the lifespan handler has run, then "running"
    web3,           \* blockchain.py global `web3`
    contract,       \* blockchain.py global `contract`
    ledger_up,      \* the ledger endpoint answers RPC calls
    chain,          \* transactions the ledger node accepted, in order of acceptance
    patients,       \* table patients
    procedures,     \* table procedures
    consents,       \* table consents
    fhir_resources, \* table fhir_resources
    calls,          \* the create_procedure invocations, finished ones included
    patient_calls,  \* the create_patient invocations that run beside one another
    resp            \* response of the last handler that ran in one step

vars == <<env, phase, web3, contract, ledger_up, chain, patients, procedures,
          consents, fhir_resources, calls, patient_calls, resp>>

-----------------------------------------------------------------------------
(* Bounds of the model *)

MaxCalls == 2       \* create_procedure invocations
MaxPatients == 1    \* rows of patients
MaxConsents == 1    \* rows of consents
MaxDocs == 2        \* rows of fhir_resources
MaxChain == 3       \* transactions the ledger node accepts
MaxPatientCalls == 2 \* create_patient invocations that run beside one another

-----------------------------------------------------------------------------
(* Python values *)

None == <<>>
Some(v) == <<v>>
Get(o) == o[1]

\* Truth value of an Optional[str] in `if x:` : None and "" are falsy.
Truthy(o) == o # None /\ Get(o) # ""

\* hashlib.sha256(patient_id.encode()).hexdigest()
hash_patient_data(patient_id) == "sha256(" \o patient_id \o ")"

\* hashlib.sha256(content).hexdigest()
hash_consent_file(content) == "sha256(" \o content \o ")"

\* str.lower() on the procedure-type strings of the model
Lower(s) ==
    CASE s = "Stent" -> "stent"
      [] s = "STENT" -> "stent"
      [] s = "Ponction" -> "ponction"
      [] OTHER -> s

-----------------------------------------------------------------------------
(* Inputs *)

Users == {1, 2}                      \* ids of the registered practitioners
PatientHashInputs == {"ha", "hb"}
TypeInputs == {"stent", "Stent"}
DurationInputs == {0, 45}
ConsentInputs == {"c0"}
MetadataInputs == {None}
FileInputs == {"pdf1"}

PROCEDURE_TYPES ==
    {"embolisation", "ponction", "stent", "angioplastie", "biopsie", "drainage",
     "ablation", "radiofréquence", "cryothérapie", "chimioembolisation"}

ProcedureCreate ==
    [patient_hash : PatientHashInputs, procedure_type : TypeInputs,
     duration : DurationInputs, consent_hash : ConsentInputs,
     metadata : MetadataInputs]

PatientCreate ==
    [patient_hash : PatientHashInputs, first_name_hash : {None},
     last_name_hash : {None}, birth_date_hash : {None}]

\* Procedure types a row of the table may carry: the vocabulary, the same
\* words in other letter case, and strings outside it.
StoredTypes == PROCEDURE_TYPES \cup {"Stent", "STENT", "Ponction", "thrombectomie", ""}

\* Rows of procedures as the store may hold them: consent_hash is nullable
\* and create_procedure takes any string for it, the empty one included;
\* the ledger fields are both absent or both set.
StoredProcedures ==
    {[id |-> 1, blockchain_id |-> ledger[1], patient_hash |-> "ha",
      practitioner_id |-> 1, procedure_type |-> t, duration |-> 45,
      consent_hash |-> c, metadata |-> None, blockchain_tx_hash |-> ledger[2]] :
        t \in StoredTypes, c \in {None, Some(""), Some("c0")},
        ledger \in {<<None, None>>, <<Some(1), Some("0x1")>>}}

\* Identity values as a client knows them before pseudonymisation.
IdentityInputs == {"alice", "bob"}

\* PatientCreate as the schema takes it: every field is a str (or None) with
\* no constraint on its form, so a client may send a digest or anything else.
PatientSubmissions ==
    [patient_hash : {hash_patient_data(x) : x \in IdentityInputs} \cup {"alice"},
     first_name_hash : {None, Some("alice")},
     last_name_hash : {None}, birth_date_hash : {None}]

-----------------------------------------------------------------------------
(* Table queries *)

Rows(table) == {table[i] : i \in 1..Len(table)}

\* db.query(Patient).filter(Patient.patient_hash == h).first() is not None
PatientExists(h) == \E p \in Rows(patients) : p.patient_hash = h

\* db.query(Procedure).filter(Procedure.id == id).first()
ProcedureById(id) == IF id \in 1..Len(procedures) THEN Some(procedures[id]) ELSE None

-----------------------------------------------------------------------------
(* utils/blockchain.py: the ledger client *)

\* tx_hash.hex() of the i-th transaction the node accepted
TxHash(i) == "0x" \o ToString(i)

Pending(c) == {i \in 1..Len(c) : c[i].status = "pending"}
Mined(c) == {i \in 1..Len(c) : c[i].status # "pending"}

\* web3.eth.get_transaction_count(web3.eth.accounts[0]): transactions of the
\* account that are in a block (a reverted one consumes its nonce too)
get_transaction_count(c) == Cardinality(Mined(c))

\* The node refuses a second transaction with the nonce of a pending one
\* (same account, same gas price).
NodeAccepts(c, nonce) ==
    /\ Len(c) < MaxChain
    /\ \A i \in Pending(c) : c[i].nonce # nonce

\* init_web3(): the globals it leaves behind and the exception it raises
init_web3 ==
    IF ~env.CONTRACT_ADDRESS
    THEN [web3 |-> web3, contract |-> contract, raised |-> "ValueError"]
    ELSE IF ~ledger_up
    THEN [web3 |-> "Web3", contract |-> contract, raised |-> "ConnectionError"]
    ELSE [web3 |-> "Web3", contract |-> "Contract", raised |-> "none"]

\* The statements of the try block of record_procedure_on_blockchain up to
\* send_raw_transaction; "sent" is the outcome in which none of them raised.
SubmitOutcomes(c) ==
    IF ~ledger_up THEN {"estimate_gas"}
    ELSE {"estimate_gas", "sign_transaction", "send_raw_transaction"}
         \cup (IF NodeAccepts(c, get_transaction_count(c)) THEN {"sent"} ELSE {})

\* except Exception as e: return {"success": False, "error": str(e)}
Failure(e) == [success |-> FALSE, error |-> e]

\* the dictionary returned after wait_for_transaction_receipt
Receipt(c, i) ==
    [success |-> TRUE, tx_hash |-> TxHash(i), block_number |-> c[i].block]

\* the arguments of contract.functions.recordProcedure
recordProcedure(input) ==
    [patient_hash |-> input.patient_hash, procedure_type |-> input.procedure_type,
     duration |-> input.duration, consent_hash |-> input.consent_hash,
     metadata |-> IF input.metadata = None THEN "" ELSE Get(input.metadata)]

-----------------------------------------------------------------------------
(* routers/procedures.py: create_procedure *)

\* Faulty variant: the patient is not looked up.
ValidationSkipsPatient(input) ==
    IF input.duration <= 0 THEN "422"
    ELSE IF input.procedure_type \notin PROCEDURE_TYPES THEN "400"
    ELSE "none"

\* pydantic (duration: gt=0), then the checks of lines 77-92
ValidationError(input) ==
    IF input.duration <= 0 THEN "422"
    ELSE IF input.procedure_type \notin PROCEDURE_TYPES THEN "400"
    ELSE IF ~PatientExists(input.patient_hash) THEN "404"
    ELSE "none"

\* Procedure(...) of lines 95-102, with the id the insert gives it
NewProcedure(id, input, user) ==
    [id |-> id, blockchain_id |-> None, patient_hash |-> input.patient_hash,
     practitioner_id |-> user, procedure_type |-> input.procedure_type,
     duration |-> input.duration, consent_hash |-> Some(input.consent_hash),
     metadata |-> input.metadata, blockchain_tx_hash |-> None]

\* Faulty variant: the row is added before the checks have spoken.
PersistBeforeChecks(table, err, row) == Append(table, row)

\* db.add(db_procedure); db.commit(): reached only when no check raised
PersistProcedure(table, err, row) ==
    IF err = "none" THEN Append(table, row) ELSE table

\* Faulty variant: the failure of the first commit is swallowed like a ledger error.
AfterFirstCommitSwallowed(committed) == "ledger"

\* where the handler goes after db.commit() of line 105
AfterFirstCommit(committed) == IF committed THEN "ledger" ELSE "raise"

\* Faulty variant: the ledger call is made whether or not a credential is configured.
SigningCredentialIgnored == TRUE

\* private_key = os.getenv("PRACTITIONER_PRIVATE_KEY"); if private_key:
SigningCredentialPresent == env.PRACTITIONER_PRIVATE_KEY

\* Faulty variant: except ValueError, which lets a ConnectionError of init_web3 through.
CoordinatorCatchesValueError(exc) == exc = "ValueError"

\* except Exception: every exception raised inside the try of lines 109-126
CoordinatorCatches(exc) == TRUE

\* Faulty variant: a loop around the ledger call that tries again.
AfterLedgerStepRetry == "ledger"

\* where the handler goes when the try block of lines 109-126 is left:
\* straight to `return db_procedure`, there is no second attempt
AfterLedgerStep == "done"

\* Faulty variant: the id the ledger gave (its own numbering) is stored as blockchain_id.
StampLedgerNumber(row, result) ==
    IF result.success
    THEN [row EXCEPT !.blockchain_id = Some(result.block_number),
                     !.blockchain_tx_hash = Some(result.tx_hash)]
    ELSE row

\* Faulty variant: the hash of the node's latest transaction is stored, not the one
\* the call's own submit returned.
StampLatestTransaction(row, result) ==
    IF result.success
    THEN [row EXCEPT !.blockchain_id = Some(row.id),
                     !.blockchain_tx_hash = Some(TxHash(Len(chain)))]
    ELSE row

\* Faulty variant: the id is stamped, the transaction hash is left for later.
StampLedgerIdOnly(row, result) ==
    IF result.success
    THEN [row EXCEPT !.blockchain_id = Some(row.id)]
    ELSE row

\* if blockchain_result["success"]: lines 123-124
StampLedgerOutcome(row, result) ==
    IF result.success
    THEN [row EXCEPT !.blockchain_id = Some(row.id),
                     !.blockchain_tx_hash = Some(result.tx_hash)]
    ELSE row

NewCall(input, user) ==
    [input |-> input, user |-> user, pc |-> "start", row |-> 0, obj |-> None,
     tx |-> 0, sends |-> 0, result |-> None, logged |-> None,
     response |-> "pending"]

\* the handler goes on to `next`; at "done" it returns db_procedure (line 131)
\* (the request body and the principal go away with the frame)
Goto(call, next) ==
    IF next = "done"
    THEN [call EXCEPT !.pc = "done", !.response = "200", !.input = None, !.user = 0]
    ELSE [call EXCEPT !.pc = next]

\* an exception leaves the handler
Raise(call, status) ==
    [call EXCEPT !.pc = "done", !.response = status, !.obj = None,
                 !.input = None, !.user = 0]

\* Lines 76-106: validation, insert, first commit, refresh.
CreateProcedureBegin(input, user, committed) ==
    /\ phase = "running"
    /\ Len(calls) < MaxCalls
    /\ LET err == ValidationError(input)
           id == Len(procedures) + 1
           row == NewProcedure(id, input, user)
           call == NewCall(input, user)
       IN  IF err # "none"
           THEN /\ procedures' = PersistProcedure(procedures, err, row)
                /\ calls' = Append(calls,
                       [Raise(call, err) EXCEPT
                           !.row = IF Len(procedures') > Len(procedures) THEN id ELSE 0])
           ELSE IF AfterFirstCommit(committed) = "raise"
           THEN /\ procedures' = procedures
                /\ calls' = Append(calls, Raise(call, "500"))
           ELSE /\ procedures' = IF committed
                                 THEN PersistProcedure(procedures, err, row)
                                 ELSE procedures
                /\ calls' = Append(calls,
                       [call EXCEPT !.pc = "ledger",
                                    !.row = IF committed THEN id ELSE 0,
                                    !.obj = Some(row)])
    /\ UNCHANGED <<patient_calls, env, phase, web3, contract, ledger_up, chain, patients,
                   consents, fhir_resources, resp>>

\* The outcome of the try block of lines 109-126 for a call that stops here.
LedgerStepEnd(call, result, logged) ==
    IF logged # None /\ ~CoordinatorCatches(Get(logged))
    THEN [Raise(call, "500") EXCEPT !.logged = logged]
    ELSE [Goto(call, AfterLedgerStep) EXCEPT !.result = result, !.logged = logged]

\* Lines 109-120 and record_procedure_on_blockchain up to send_raw_transaction:
\* the credential test, init_web3 when the client is not initialised, gas
\* estimation, signing, sending.
CreateProcedureLedger(c, outcome) ==
    /\ c \in 1..Len(calls)
    /\ calls[c].pc = "ledger"
    /\ LET call == calls[c]
           init == IF contract = "None" THEN init_web3
                   ELSE [web3 |-> web3, contract |-> contract, raised |-> "none"]
       IN  IF ~SigningCredentialPresent
           THEN /\ outcome = "skip"
                /\ calls' = [calls EXCEPT ![c] = Goto(call, "done")]
                /\ UNCHANGED <<web3, contract, chain>>
           ELSE IF init.raised # "none"
           THEN /\ outcome = "init_web3"
                /\ web3' = init.web3
                /\ contract' = init.contract
                /\ calls' = [calls EXCEPT ![c] = LedgerStepEnd(call, None, Some(init.raised))]
                /\ UNCHANGED chain
           ELSE /\ outcome \in SubmitOutcomes(chain)
                /\ web3' = init.web3
                /\ contract' = init.contract
                /\ IF outcome = "sent"
                   THEN /\ chain' = Append(chain,
                               [nonce |-> get_transaction_count(chain),
                                status |-> "pending", block |-> 0,
                                args |-> recordProcedure(call.input), call |-> c])
                        /\ calls' = [calls EXCEPT ![c].pc = "wait",
                                                  ![c].tx = Len(chain) + 1,
                                                  ![c].sends = call.sends + 1]
                   ELSE /\ chain' = chain
                        /\ calls' = [calls EXCEPT
                               ![c] = LedgerStepEnd(call, Some(Failure(outcome)), None)]
    /\ UNCHANGED <<patient_calls, env, phase, ledger_up, patients, procedures, consents,
                   fhir_resources, resp>>

\* Faulty variant: the wait is made with timeout=None and polls for ever.
WaitUnbounded == FALSE

\* web3.eth.wait_for_transaction_receipt(tx_hash): the call passes no timeout,
\* so the one of the library applies (timeout=120 seconds, then TimeExhausted)
WaitBounded == TRUE

\* wait_for_transaction_receipt raised (time-out, connection lost): Failure.
CreateProcedureWaitFails(c) ==
    /\ c \in 1..Len(calls)
    /\ calls[c].pc = "wait"
    /\ WaitBounded
    /\ calls' = [calls EXCEPT
           ![c] = LedgerStepEnd(calls[c], Some(Failure("wait_for_transaction_receipt")), None)]
    /\ UNCHANGED <<patient_calls, env, phase, web3, contract, ledger_up, chain, patients,
                   procedures, consents, fhir_resources, resp>>

\* wait_for_transaction_receipt returned the receipt of the mined transaction;
\* lines 122-126: stamp the record, second commit, refresh.
CreateProcedureReceipt(c, committed) ==
    /\ c \in 1..Len(calls)
    /\ calls[c].pc = "wait"
    /\ ledger_up
    /\ chain[calls[c].tx].status # "pending"
    /\ LET call == calls[c]
           result == Receipt(chain, call.tx)
           stamped == StampLedgerOutcome(Get(call.obj), result)
           id == stamped.id
       IN  IF committed /\ call.row # 0
           THEN /\ procedures' = [procedures EXCEPT
                       ![id].blockchain_id = stamped.blockchain_id,
                       ![id].blockchain_tx_hash = stamped.blockchain_tx_hash]
                /\ calls' = [calls EXCEPT
                       ![c] = [Goto(call, "done") EXCEPT
                                  !.result = Some(result),
                                  !.obj = Some(procedures'[id])]]
           ELSE /\ procedures' = procedures
                /\ calls' = [calls EXCEPT
                       ![c] = [LedgerStepEnd(call, Some(result), Some("commit"))
                                  EXCEPT !.obj = IF @ = None THEN None ELSE Some(stamped)]]
    /\ UNCHANGED <<patient_calls, env, phase, web3, contract, ledger_up, chain, patients,
                   consents, fhir_resources, resp>>

-----------------------------------------------------------------------------
(* The ledger, a black box behind the RPC endpoint *)

\* A pending transaction gets into a block, executed or reverted.
LedgerMine(i, status) ==
    /\ i \in Pending(chain)
    /\ status \in {"ok", "reverted"}
    /\ chain' = [chain EXCEPT ![i].status = status,
                              ![i].block = Cardinality(Mined(chain)) + 1]
    /\ UNCHANGED <<patient_calls, env, phase, web3, contract, ledger_up, patients, procedures,
                   consents, fhir_resources, calls, resp>>

\* The endpoint becomes unreachable, or reachable again.
LedgerOutage ==
    /\ ledger_up' = ~ledger_up
    /\ UNCHANGED <<patient_calls, env, phase, web3, contract, chain, patients, procedures,
                   consents, fhir_resources, calls, resp>>

\* The contract behind recordProcedure and getProcedure (MedicalProcedure.sol):
\* recordProcedure takes no id; the contract numbers the entries itself, from
\* 1, in the order in which the executed transactions were included, and
\* emits the number as procedureId.
LedgerEntries(c) == {i \in 1..Len(c) : c[i].status = "ok"}

LedgerEntryId(c, i) ==
    Cardinality({j \in LedgerEntries(c) : c[j].block <= c[i].block})

\* contract.functions.getProcedure(id).call(): the entry numbered id
getProcedure(c, id) ==
    IF \E i \in LedgerEntries(c) : LedgerEntryId(c, i) = id
    THEN Some(c[CHOOSE i \in LedgerEntries(c) : LedgerEntryId(c, i) = id].args)
    ELSE None

-----------------------------------------------------------------------------
(* main.py: lifespan *)

\* try: init_web3() except Exception: print(...)
Lifespan ==
    /\ phase = "startup"
    /\ phase' = "running"
    /\ web3' = init_web3.web3
    /\ contract' = init_web3.contract
    /\ UNCHANGED <<patient_calls, env, ledger_up, chain, patients, procedures, consents,
                   fhir_resources, calls, resp>>

-----------------------------------------------------------------------------
(* routers/procedures.py: create_patient, upload_consent *)

Response(op, status, body) == [op |-> op, status |-> status, body |-> body]

\* Patient(**patient.dict()) with the id the insert gives it
NewPatient(id, patient) ==
    [id |-> id, patient_hash |-> patient.patient_hash,
     first_name_hash |-> patient.first_name_hash,
     last_name_hash |-> patient.last_name_hash,
     birth_date_hash |-> patient.birth_date_hash]

create_patient(patient, committed) ==
    /\ phase = "running"
    /\ Len(patients) < MaxPatients
    /\ IF PatientExists(patient.patient_hash)
       THEN /\ patients' = patients
            /\ resp' = Response("create_patient", "400", None)
       ELSE IF ~committed
       THEN /\ patients' = patients
            /\ resp' = Response("create_patient", "500", None)
       ELSE /\ patients' = Append(patients, NewPatient(Len(patients) + 1, patient))
            /\ resp' = Response("create_patient", "200", None)
    /\ UNCHANGED <<patient_calls, env, phase, web3, contract, ledger_up, chain, procedures,
                   consents, fhir_resources, calls>>

\* create_patient in two steps, for requests served beside one another (several
\* worker processes over one database): the query of lines 29-31 and the
\* commit of line 41 are two statements of the store.

PatientCall(patient, pc, response, raised, row) ==
    [input |-> patient, pc |-> pc, response |-> response, raised |-> raised,
     row |-> row]

\* Faulty variant: the column patient_hash carries no unique constraint.
PatientInsertUnchecked(h) == TRUE

\* Column(String, unique=True): the commit of a second row with the
\* patient_hash of an existing one fails (IntegrityError).
PatientInsertOk(h) == ~PatientExists(h)

\* Lines 29-37: the query, and HTTPException(400) when it finds a row.
CreatePatientQuery(patient) ==
    /\ phase = "running"
    /\ Len(patient_calls) < MaxPatientCalls
    /\ patient_calls' = Append(patient_calls,
           IF PatientExists(patient.patient_hash)
           THEN PatientCall(patient, "done", "400", "HTTPException", 0)
           ELSE PatientCall(patient, "commit", "pending", "none", 0))
    /\ UNCHANGED <<env, phase, web3, contract, ledger_up, chain, patients,
                   procedures, consents, fhir_resources, calls, resp>>

\* Lines 39-44: Patient(**patient.dict()), add, commit, refresh, return.
CreatePatientCommit(k, committed) ==
    /\ k \in 1..Len(patient_calls)
    /\ patient_calls[k].pc = "commit"
    /\ LET patient == patient_calls[k].input
           id == Len(patients) + 1
       IN  IF ~PatientInsertOk(patient.patient_hash)
           THEN /\ patients' = patients
                /\ patient_calls' = [patient_calls EXCEPT
                       ![k] = PatientCall(patient, "done", "500", "IntegrityError", 0)]
           ELSE IF ~committed
           THEN /\ patients' = patients
                /\ patient_calls' = [patient_calls EXCEPT
                       ![k] = PatientCall(patient, "done", "500", "OperationalError", 0)]
           ELSE /\ patients' = Append(patients, NewPatient(id, patient))
                /\ patient_calls' = [patient_calls EXCEPT
                       ![k] = PatientCall(patient, "done", "200", "none", id)]
    /\ UNCHANGED <<env, phase, web3, contract, ledger_up, chain, procedures,
                   consents, fhir_resources, calls, resp>>

\* Consent.consent_hash is unique: the insert of a second row with the same
\* digest fails at commit.
ConsentInsertOk(h) == \A k \in 1..Len(consents) : consents[k].consent_hash # h

\* Faulty variant: the handler does not compare the principal with the owner.
IsOwnerAnyone(procedure, user) == TRUE

\* procedure.practitioner_id != current_user.id  (line 213), negated
IsOwner(procedure, user) == procedure.practitioner_id = user

\* Faulty variant: the row is written back from the request alone, without the
\* ledger fields the coordinator had stamped.
SetConsentHashResetLedger(row, consent_hash) ==
    [row EXCEPT !.consent_hash = Some(consent_hash), !.blockchain_id = None,
                !.blockchain_tx_hash = None]

\* procedure.consent_hash = consent_hash  (line 245)
SetConsentHash(row, consent_hash) == [row EXCEPT !.consent_hash = Some(consent_hash)]

\* The request of an upload_consent call, kept with its response.
ConsentRequest(procedure_id, user) == Some([procedure_id |-> procedure_id, user |-> user])

\* commit1 and commit2 tell whether the store accepts the two commits.
upload_consent(procedure_id, content, user, commit1, commit2) ==
    /\ phase = "running"
    /\ Len(consents) < MaxConsents
    /\ LET procedure == ProcedureById(procedure_id)
           consent_hash == hash_consent_file(content)
           request == ConsentRequest(procedure_id, user)
       IN  IF procedure = None
           THEN /\ resp' = Response("upload_consent", "404", request)
                /\ UNCHANGED <<consents, procedures>>
           ELSE IF ~IsOwner(Get(procedure), user)
           THEN /\ resp' = Response("upload_consent", "403", request)
                /\ UNCHANGED <<consents, procedures>>
           ELSE IF ~(commit1 /\ ConsentInsertOk(consent_hash))
           THEN /\ resp' = Response("upload_consent", "500", request)
                /\ UNCHANGED <<consents, procedures>>
           ELSE /\ consents' = Append(consents,
                       [id |-> Len(consents) + 1, procedure_id |-> procedure_id,
                        consent_hash |-> consent_hash,
                        file_path |-> "uploads/consents/consent_" \o ToString(procedure_id)])
                /\ IF commit2
                   THEN /\ procedures' = [procedures EXCEPT
                               ![procedure_id] = SetConsentHash(@, consent_hash)]
                        /\ resp' = Response("upload_consent", "200", request)
                   ELSE /\ procedures' = procedures
                        /\ resp' = Response("upload_consent", "500", request)
    /\ UNCHANGED <<patient_calls, env, phase, web3, contract, ledger_up, chain, patients,
                   fhir_resources, calls>>

-----------------------------------------------------------------------------
(* utils/blockchain.py: the read functions *)

\* The answers of the contract are inputs: the list of ids a listing call
\* returns, the ids whose getProcedure call fails, the exception a call raises.
LedgerIds == {1, 2, 3}
IdLists == UNION {[1..n -> LedgerIds] : n \in 0..Cardinality(LedgerIds)}
Range(ids) == {ids[i] : i \in 1..Len(ids)}
CallErrors == {"ContractLogicError", "ConnectionError"}

\* if contract is None: init_web3()   (first statement of every function)
EnsureClient ==
    IF contract = "None" THEN init_web3
    ELSE [web3 |-> web3, contract |-> contract, raised |-> "none"]

\* Faulty variant: except ContractLogicError, which lets a transport error through.
ReadCatchesLogicError(exc) == exc = "ContractLogicError"

\* except Exception as e: of the read functions
ReadCatches(exc) == TRUE

\* the dictionary of lines 175-185, built from the tuple getProcedure returns
\* (the fields other than id are copied from the tuple in the same way)
LedgerProcedure(procedure_id) == [id |-> procedure_id, is_active |-> TRUE]

\* get_procedure_from_blockchain called from the loops, where the client is
\* initialised: the dictionary, or None when the call failed
ProcedureOrNone(procedure_id, failing) ==
    IF procedure_id \in failing THEN None ELSE Some(LedgerProcedure(procedure_id))

RECURSIVE ResolveAllAbort(_, _)
\* Faulty variant: the loop gives up at the first id that does not resolve.
ResolveAllAbort(procedure_ids, failing) ==
    IF procedure_ids = <<>> THEN <<>>
    ELSE LET procedure == ProcedureOrNone(Head(procedure_ids), failing)
         IN  IF procedure # None
             THEN <<Get(procedure)>> \o ResolveAllAbort(Tail(procedure_ids), failing)
             ELSE <<>>

RECURSIVE ResolveAll(_, _)
\* for proc_id in procedure_ids: ... if procedure: procedures.append(procedure)
ResolveAll(procedure_ids, failing) ==
    IF procedure_ids = <<>> THEN <<>>
    ELSE LET procedure == ProcedureOrNone(Head(procedure_ids), failing)
         IN  (IF procedure # None THEN <<Get(procedure)>> ELSE <<>>)
             \o ResolveAll(Tail(procedure_ids), failing)

\* What a read leaves in resp: whether the client was initialised when it
\* was called, what was asked, the exception that came up, the value returned.
ReadLog(initialised, request, error, value) ==
    [initialised |-> initialised, request |-> request, error |-> error,
     value |-> value]

\* The frame of the five read functions: the client test, the try block whose
\* contract call raises exc ("none": it answers, and the function returns
\* value), the except clause that prints and returns empty.
LedgerRead(op, request, exc, value, empty) ==
    /\ phase = "running"
    /\ exc \in CallErrors \cup {"none"}
    /\ ~ledger_up => exc = "ConnectionError"
    /\ LET init == EnsureClient
           initialised == contract # "None"
       IN  /\ web3' = init.web3
           /\ contract' = init.contract
           /\ resp' =
                IF init.raised # "none"
                THEN Response(op, "raised",
                         Some(ReadLog(initialised, request, init.raised, None)))
                ELSE IF exc = "none"
                THEN Response(op, "returned",
                         Some(ReadLog(initialised, request, "none", value)))
                ELSE IF ReadCatches(exc)
                THEN Response(op, "returned",
                         Some(ReadLog(initialised, request, exc, empty)))
                ELSE Response(op, "raised",
                         Some(ReadLog(initialised, request, exc, None)))
    /\ UNCHANGED <<patient_calls, env, phase, ledger_up, chain, patients,
                   procedures, consents, fhir_resources, calls>>

get_procedure_from_blockchain(procedure_id, exc) ==
    LedgerRead("get_procedure_from_blockchain",
               [ids |-> <<procedure_id>>, failing |-> {}], exc,
               Some(LedgerProcedure(procedure_id)), None)

get_patient_procedures_from_blockchain(procedure_ids, failing, exc) ==
    LedgerRead("get_patient_procedures_from_blockchain",
               [ids |-> procedure_ids, failing |-> failing], exc,
               ResolveAll(procedure_ids, failing), <<>>)

get_practitioner_procedures_from_blockchain(procedure_ids, failing, exc) ==
    LedgerRead("get_practitioner_procedures_from_blockchain",
               [ids |-> procedure_ids, failing |-> failing], exc,
               ResolveAll(procedure_ids, failing), <<>>)

is_practitioner(answer, exc) ==
    LedgerRead("is_practitioner", [ids |-> <<>>, failing |-> {}], exc,
               answer, FALSE)

get_total_procedures(answer, exc) ==
    LedgerRead("get_total_procedures", [ids |-> <<>>, failing |-> {}], exc,
               answer, 0)

-----------------------------------------------------------------------------
(* shared/utils/fhir_converter.py *)

SNOMED == "http://snomed.info/sct"

Concept(code, display) == [code |-> code, display |-> display, system |-> SNOMED]

SNOMED_PROCEDURE_CODES ==
    [t \in PROCEDURE_TYPES |->
        CASE t = "embolisation" -> Concept("433144002", "Embolization procedure")
          [] t = "ponction" -> Concept("261190007", "Percutaneous puncture")
          [] t = "stent" -> Concept("384692006", "Insertion of stent")
          [] t = "angioplastie" -> Concept("372024009", "Angioplasty")
          [] t = "biopsie" -> Concept("387713003", "Surgical biopsy")
          [] t = "drainage" -> Concept("174250002", "Drainage procedure")
          [] t = "ablation" -> Concept("713295009", "Ablation")
          [] t = "radiofréquence" -> Concept("173666000", "Radiofrequency ablation")
          [] t = "cryothérapie" -> Concept("173665001", "Cryotherapy")
          [] OTHER -> Concept("430193006", "Chemoembolization")]

\* Faulty variant: the fallback of .get() is the first entry of the table.
get_snomed_code_first_entry(procedure_type) ==
    IF Lower(procedure_type) \in DOMAIN SNOMED_PROCEDURE_CODES
    THEN SNOMED_PROCEDURE_CODES[Lower(procedure_type)]
    ELSE SNOMED_PROCEDURE_CODES["embolisation"]

\* SNOMED_PROCEDURE_CODES.get(procedure_type.lower(), {default})
get_snomed_code(procedure_type) ==
    IF Lower(procedure_type) \in DOMAIN SNOMED_PROCEDURE_CODES
    THEN SNOMED_PROCEDURE_CODES[Lower(procedure_type)]
    ELSE Concept("261190007", "Percutaneous puncture")

\* s[:8]; the patient hashes of the model are shorter than 8 characters
Prefix8(s) == s

\* Faulty variant: the extension is attached whether or not there is a hash.
ClaimMetaAlways(procedure) ==
    [versionId |-> "1", source |-> "#radiology-dapp",
     extension |->
        <<[url |-> "http://radiology-dapp.com/blockchain-transaction",
           valueString |-> IF procedure.blockchain_tx_hash = None THEN "None"
                           ELSE Get(procedure.blockchain_tx_hash)]>>]

\* claim["meta"], with the extension of lines 162-167
ClaimMeta(procedure) ==
    LET meta == [versionId |-> "1", source |-> "#radiology-dapp"]
    IN  IF Truthy(procedure.blockchain_tx_hash)
        THEN meta @@ [extension |->
                <<[url |-> "http://radiology-dapp.com/blockchain-transaction",
                   valueString |-> Get(procedure.blockchain_tx_hash)]>>]
        ELSE meta

\* Faulty variant: the section is added whether or not there is a consent hash.
ClaimSupportingInfoAlways(procedure) ==
    [supportingInfo |->
        <<[sequence |-> 1, category |-> "consent",
           valueString |-> IF procedure.consent_hash = None THEN "None"
                           ELSE Get(procedure.consent_hash)]>>]

\* claim["supportingInfo"] of lines 169-181, as the keys it adds to the claim
ClaimSupportingInfo(procedure) ==
    IF Truthy(procedure.consent_hash)
    THEN [supportingInfo |->
             <<[sequence |-> 1, category |-> "consent",
                valueString |-> Get(procedure.consent_hash)]>>]
    ELSE <<>>

\* The claim document.  The sections that are the same in every claim (use,
\* priority, insurance sequence, total, quantity) are kept as they are written;
\* the three isoformat() timestamps are left out with the columns they print.
create_fhir_claim(procedure, patient, practitioner) ==
    LET snomed_code == get_snomed_code(procedure.procedure_type)
        coding == [system |-> snomed_code.system, code |-> snomed_code.code,
                   display |-> snomed_code.display]
        claim == [resourceType |-> "Claim",
                  id |-> "claim-" \o ToString(procedure.id),
                  status |-> "active",
                  type |-> "institutional",
                  use |-> "claim",
                  patient |-> [reference |-> "Patient/" \o patient.patient_hash,
                               display |-> "Patient " \o Prefix8(patient.patient_hash) \o "..."],
                  provider |-> [reference |-> "Practitioner/" \o ToString(practitioner.id),
                                display |-> practitioner.username],
                  priority |-> "normal",
                  procedure |-> <<[sequence |-> 1,
                                   procedureCodeableConcept |->
                                       [coding |-> <<coding>>,
                                        text |-> procedure.procedure_type]]>>,
                  insurance |-> <<[sequence |-> 1, focal |-> TRUE,
                                   coverage |-> "Coverage/coverage-"
                                                \o Prefix8(patient.patient_hash)]>>,
                  item |-> <<[sequence |-> 1, productOrService |-> <<coding>>]>>,
                  total |-> [currency |-> "EUR", value |-> 0],
                  meta |-> ClaimMeta(procedure)]
    IN  claim @@ ClaimSupportingInfo(procedure)

\* Faulty variant: the validator asks for the insurer, which FHIR R4 requires and
\* the builder does not write.
RequiredFieldsR4 ==
    <<"resourceType", "id", "status", "type", "patient", "provider", "insurer">>

\* required_fields of validate_fhir_claim
RequiredFields == <<"resourceType", "id", "status", "type", "patient", "provider">>

ValidStatuses == {"active", "cancelled", "draft", "entered-in-error"}

RECURSIVE ProcedureErrors(_, _)
\* for i, procedure in enumerate(claim["procedure"]): the errors of the
\* entries from the i-th on (Python counts them from 0)
ProcedureErrors(entries, i) ==
    IF i > Len(entries) THEN <<>>
    ELSE (IF "sequence" \notin DOMAIN entries[i]
          THEN <<"Sequence manquante pour la procédure " \o ToString(i - 1)>>
          ELSE <<>>)
         \o (IF "procedureCodeableConcept" \notin DOMAIN entries[i]
             THEN <<"procedureCodeableConcept manquant pour la procédure "
                    \o ToString(i - 1)>>
             ELSE <<>>)
         \o ProcedureErrors(entries, i + 1)

validate_fhir_claim(claim) ==
    LET missing == SelectSeq(RequiredFields, LAMBDA field : field \notin DOMAIN claim)
        errors ==
            [i \in 1..Len(missing) |-> "Champ requis manquant: " \o missing[i]]
            \o (IF "resourceType" \in DOMAIN claim /\ claim.resourceType = "Claim"
                THEN <<>> ELSE <<"resourceType doit être 'Claim'">>)
            \o (IF "status" \in DOMAIN claim /\ claim.status \in ValidStatuses
                THEN <<>>
                ELSE <<"Status invalide. Valeurs autorisées: "
                       \o "['active', 'cancelled', 'draft', 'entered-in-error']">>)
            \o (IF "procedure" \in DOMAIN claim
                THEN ProcedureErrors(claim.procedure, 1) ELSE <<>>)
    IN  [valid |-> Len(errors) = 0, errors |-> errors, warnings |-> <<>>]

\* The patient document; meta is the same in every document but for the
\* isoformat() timestamp, left out with the column it prints.
create_fhir_patient(patient) ==
    LET patient_resource ==
            [resourceType |-> "Patient",
             id |-> patient.patient_hash,
             identifier |-> <<[system |-> "http://radiology-dapp.com/patient",
                               value |-> patient.patient_hash]>>,
             active |-> TRUE]
    IN  IF Truthy(patient.first_name_hash)
        THEN patient_resource @@
             [name |-> <<[use |-> "official",
                          text |-> "Patient " \o Prefix8(patient.patient_hash)
                                   \o "..."]>>]
        ELSE patient_resource

\* The practitioner document, with the columns the model keeps of a user.
create_fhir_practitioner(practitioner) ==
    [resourceType |-> "Practitioner",
     id |-> ToString(practitioner.id),
     identifier |-> <<[system |-> "http://radiology-dapp.com/practitioner",
                       value |-> ToString(practitioner.id)]>>,
     name |-> <<[use |-> "official", text |-> practitioner.username]>>]

\* str(v) of a list of dictionaries: the text that prints its value
str(v) == [str |-> v]

\* hashlib.md5(x.encode()).hexdigest()
md5_hexdigest(x) == [md5 |-> x]

\* Faulty variant: the moment of the call goes into the digest.
DigestInputWithTime(resources, bundle_type, utcnow) == str(<<resources, utcnow>>)

\* str(resources), line 344
DigestInput(resources, bundle_type, utcnow) == str(resources)

\* utcnow stands for datetime.utcnow().isoformat()
create_fhir_bundle(resources, bundle_type, utcnow) ==
    [resourceType |-> "Bundle",
     id |-> <<"bundle-",
              Prefix8(md5_hexdigest(DigestInput(resources, bundle_type, utcnow)))>>,
     type |-> bundle_type,
     timestamp |-> utcnow,
     total |-> Len(resources),
     entry |-> [i \in 1..Len(resources) |->
                   [fullUrl |-> resources[i].resourceType \o "/" \o resources[i].id,
                    resource |-> resources[i],
                    search |-> [mode |-> "match"]]]]

-----------------------------------------------------------------------------
(* routers/fhir.py: the document registry *)

\* json.dumps(d, indent=2) and json.loads(s)
json_dumps(d) == [json |-> d]
json_loads(s) == s.json

\* table users: the practitioners are registered before the model starts
UserById(id) ==
    IF id \in Users THEN Some([id |-> id, username |-> "dr" \o ToString(id)]) ELSE None

PatientByHash(h) ==
    IF PatientExists(h)
    THEN Some(CHOOSE p \in Rows(patients) : p.patient_hash = h)
    ELSE None

\* FHIRResource(...); db.add(fhir_resource): a new row on every call
StoreDocument(table, resource_type, resource_id, document) ==
    Append(table, [id |-> Len(table) + 1, resource_type |-> resource_type,
                   resource_id |-> resource_id, fhir_data |-> json_dumps(document)])

generate_fhir_claim(procedure_id, committed) ==
    /\ phase = "running"
    /\ Len(fhir_resources) < MaxDocs
    /\ LET procedure == ProcedureById(procedure_id)
           patient == IF procedure = None THEN None
                      ELSE PatientByHash(Get(procedure).patient_hash)
           practitioner == IF procedure = None THEN None
                           ELSE UserById(Get(procedure).practitioner_id)
       IN  IF procedure = None \/ patient = None \/ practitioner = None
           THEN /\ resp' = Response("generate_fhir_claim", "404", None)
                /\ fhir_resources' = fhir_resources
           ELSE LET claim == create_fhir_claim(Get(procedure), Get(patient),
                                               Get(practitioner))
                IN  IF committed
                    THEN /\ fhir_resources' =
                              StoreDocument(fhir_resources, "Claim",
                                            "claim-" \o ToString(procedure_id), claim)
                         /\ resp' = Response("generate_fhir_claim", "200", None)
                    ELSE /\ fhir_resources' = fhir_resources
                         /\ resp' = Response("generate_fhir_claim", "500", None)
    /\ UNCHANGED <<patient_calls, env, phase, web3, contract, ledger_up, chain, patients,
                   procedures, consents, calls>>

\* The rows db.query(FHIRResource).filter(resource_id == ...) selects.
Matching(resource_id) ==
    {k \in 1..Len(fhir_resources) : fhir_resources[k].resource_id = resource_id}

\* .first() on a query with no ORDER BY: the store returns whichever matching
\* row it finds first.
get_fhir_resource(resource_id, k) ==
    /\ phase = "running"
    /\ IF Matching(resource_id) = {}
       THEN resp' = Response("get_fhir_resource", "404", None)
       ELSE /\ k \in Matching(resource_id)
            /\ resp' = Response("get_fhir_resource", "200",
                   Some([id |-> fhir_resources[k].id,
                         resource_type |-> fhir_resources[k].resource_type,
                         resource_id |-> fhir_resources[k].resource_id,
                         fhir_data |-> json_loads(fhir_resources[k].fhir_data)]))
    /\ UNCHANGED <<patient_calls, env, phase, web3, contract, ledger_up, chain, patients,
                   procedures, consents, fhir_resources, calls>>

generate_fhir_patient(patient_hash, committed) ==
    /\ phase = "running"
    /\ Len(fhir_resources) < MaxDocs
    /\ LET patient == PatientByHash(patient_hash)
       IN  IF patient = None
           THEN /\ resp' = Response("generate_fhir_patient", "404", None)
                /\ fhir_resources' = fhir_resources
           ELSE IF committed
           THEN /\ fhir_resources' =
                     StoreDocument(fhir_resources, "Patient",
                                   "patient-" \o patient_hash,
                                   create_fhir_patient(Get(patient)))
                /\ resp' = Response("generate_fhir_patient", "200", None)
           ELSE /\ fhir_resources' = fhir_resources
                /\ resp' = Response("generate_fhir_patient", "500", None)
    /\ UNCHANGED <<patient_calls, env, phase, web3, contract, ledger_up, chain, patients,
                   procedures, consents, calls>>

generate_fhir_practitioner(practitioner_id, committed) ==
    /\ phase = "running"
    /\ Len(fhir_resources) < MaxDocs
    /\ LET practitioner == UserById(practitioner_id)
       IN  IF practitioner = None
           THEN /\ resp' = Response("generate_fhir_practitioner", "404", None)
                /\ fhir_resources' = fhir_resources
           ELSE IF committed
           THEN /\ fhir_resources' =
                     StoreDocument(fhir_resources, "Practitioner",
                                   "practitioner-" \o ToString(practitioner_id),
                                   create_fhir_practitioner(Get(practitioner)))
                /\ resp' = Response("generate_fhir_practitioner", "200", None)
           ELSE /\ fhir_resources' = fhir_resources
                /\ resp' = Response("generate_fhir_practitioner", "500", None)
    /\ UNCHANGED <<patient_calls, env, phase, web3, contract, ledger_up, chain, patients,
                   procedures, consents, calls>>

-----------------------------------------------------------------------------
(* routers/procedures.py: get_procedures *)

\* query.filter(Procedure.patient_hash == patient_hash) when the parameter is
\* given and not empty, then offset(0).limit(100).all()
get_procedures(patient_hash) ==
    /\ phase = "running"
    /\ resp' = Response("get_procedures", "200",
                  Some(SelectSeq(procedures,
                           LAMBDA row : patient_hash \in {None, Some("")}
                                        \/ Some(row.patient_hash) = patient_hash)))
    /\ UNCHANGED <<patient_calls, env, phase, web3, contract, ledger_up, chain, patients,
                   procedures, consents, fhir_resources, calls>>

-----------------------------------------------------------------------------
(* create_fhir_bundle applied to documents of the stored rows *)

MaxBundle == 3      \* documents handed to create_fhir_bundle

\* The documents the builders make of the rows in the tables.
Documents ==
    {create_fhir_patient(p) : p \in Rows(patients)}
    \cup {create_fhir_practitioner(Get(UserById(r.practitioner_id))) :
             r \in Rows(procedures)}
    \cup {create_fhir_claim(r, Get(PatientByHash(r.patient_hash)),
                            Get(UserById(r.practitioner_id))) :
             r \in {q \in Rows(procedures) : PatientExists(q.patient_hash)}}

DocumentLists == UNION {[1..n -> Documents] : n \in 0..MaxBundle}

BundleTypes == {"collection", "searchset"}

Instants == {"2024-01-01T00:00:00", "2024-01-01T00:00:01"}

\* A call of create_fhir_bundle; resp keeps the list beside the bundle.
BuildBundle(resources, bundle_type, utcnow) ==
    /\ phase = "running"
    /\ resp' = Response("create_fhir_bundle", "returned",
                  Some([resources |-> resources,
                        bundle |-> create_fhir_bundle(resources, bundle_type, utcnow)]))
    /\ UNCHANGED <<patient_calls, env, phase, web3, contract, ledger_up, chain, patients,
                   procedures, consents, fhir_resources, calls>>

-----------------------------------------------------------------------------
(* The system *)

ResourceIdInputs == {"claim-" \o ToString(i) : i \in 1..MaxCalls}

Init ==
    /\ env \in [PRACTITIONER_PRIVATE_KEY : BOOLEAN, CONTRACT_ADDRESS : BOOLEAN]
    /\ phase = "startup"
    /\ web3 = "None"
    /\ contract = "None"
    /\ ledger_up \in BOOLEAN
    /\ chain = <<>>
    /\ patients = <<>>
    /\ procedures = <<>>
    /\ consents = <<>>
    /\ fhir_resources = <<>>
    /\ calls = <<>>
    /\ patient_calls = <<>>
    /\ resp = Response("none", "none", None)

\* The ledger and the process that serves the requests.
Environment ==
    \/ Lifespan
    \/ LedgerOutage
    \/ \E i \in 1..MaxChain, status \in {"ok", "reverted"} : LedgerMine(i, status)

\* The handlers that write the tables patients, procedures and consents.
Coordinator ==
    \/ \E patient \in PatientCreate, committed \in BOOLEAN :
          create_patient(patient, committed)
    \/ \E input \in ProcedureCreate, user \in Users, committed \in BOOLEAN :
          CreateProcedureBegin(input, user, committed)
    \/ \E c \in 1..MaxCalls,
          outcome \in {"skip", "init_web3", "estimate_gas", "sign_transaction",
                       "send_raw_transaction", "sent"} :
          CreateProcedureLedger(c, outcome)
    \/ \E c \in 1..MaxCalls : CreateProcedureWaitFails(c)
    \/ \E c \in 1..MaxCalls, committed \in BOOLEAN : CreateProcedureReceipt(c, committed)
    \/ \E id \in 1..MaxCalls, content \in FileInputs, user \in Users,
          commit1 \in BOOLEAN, commit2 \in BOOLEAN :
          upload_consent(id, content, user, commit1, commit2)

\* The handlers of the document registry.
Registry ==
    \/ \E id \in 1..MaxCalls, committed \in BOOLEAN : generate_fhir_claim(id, committed)
    \/ \E rid \in ResourceIdInputs, k \in 1..MaxDocs : get_fhir_resource(rid, k)

\* The reconciliation pipeline: every handler that writes a procedure record,
\* with the ledger behind it.  The registry handlers read these tables and
\* write only fhir_resources; they are left to SpecRegistry.
Next == Environment \/ Coordinator

Spec == Init /\ [][Next]_vars

\* The steps of the handler that serves call c once its row is committed.
CallStep(c) ==
    \/ \E outcome \in {"skip", "init_web3", "estimate_gas", "sign_transaction",
                        "send_raw_transaction", "sent"} :
          CreateProcedureLedger(c, outcome)
    \/ CreateProcedureWaitFails(c)
    \/ \E committed \in BOOLEAN : CreateProcedureReceipt(c, committed)

\* A handler that has a statement to run runs it: the interpreter goes on,
\* and a blocking call of the ledger client returns or raises.  Nothing is
\* asked of the ledger (it may never include a transaction) nor of the
\* clients (they may stop sending requests).
SpecLive == Spec /\ \A c \in 1..MaxCalls : WF_vars(CallStep(c))

\* Every kind of operation beside the others, on a deployment whose ledger is
\* configured and reachable: the writers of the procedure records, document
\* generation and lookup, listing, and a read of the ledger.
InitFrame ==
    /\ Init
    /\ env = [PRACTITIONER_PRIVATE_KEY |-> TRUE, CONTRACT_ADDRESS |-> TRUE]
    /\ ledger_up

Readers ==
    \/ \E patient_hash \in {None} \cup {Some(h) : h \in PatientHashInputs} :
          get_procedures(patient_hash)
    \/ \E id \in 1..MaxCalls, exc \in CallErrors \cup {"none"} :
          get_procedure_from_blockchain(id, exc)

\* The writers, called with requests that pass validation and with commits
\* that succeed (their failures are the matter of Spec).
Writers ==
    \/ \E patient \in PatientCreate : create_patient(patient, TRUE)
    \/ \E input \in ProcedureCreate, user \in Users :
          /\ ValidationError(input) = "none"
          /\ CreateProcedureBegin(input, user, TRUE)
    \/ \E c \in 1..MaxCalls : CreateProcedureLedger(c, "sent")
    \/ \E c \in 1..MaxCalls : CreateProcedureWaitFails(c)
    \/ \E c \in 1..MaxCalls : CreateProcedureReceipt(c, TRUE)
    \/ \E id \in 1..MaxCalls, content \in FileInputs, user \in Users :
          upload_consent(id, content, user, TRUE, TRUE)

NextFrame ==
    \/ Lifespan
    \/ \E i \in 1..MaxChain : LedgerMine(i, "ok")
    \/ Writers
    \/ \E id \in 1..MaxCalls : generate_fhir_claim(id, TRUE)
    \/ \E rid \in ResourceIdInputs, k \in 1..MaxDocs : get_fhir_resource(rid, k)
    \/ Readers

SpecFrame == InitFrame /\ [][NextFrame]_vars

\* The document registry over a deployment with no ledger configured (no
\* signing credential, no contract address): every record stays Created.
InitRegistry ==
    /\ Init
    /\ env = [PRACTITIONER_PRIVATE_KEY |-> FALSE, CONTRACT_ADDRESS |-> FALSE]
    /\ ~ledger_up

NextRegistry ==
    \/ Lifespan
    \/ \E patient \in PatientCreate, committed \in BOOLEAN :
          create_patient(patient, committed)
    \/ \E input \in ProcedureCreate, user \in Users, committed \in BOOLEAN :
          CreateProcedureBegin(input, user, committed)
    \/ \E c \in 1..MaxCalls : CreateProcedureLedger(c, "skip")
    \/ \E id \in 1..MaxCalls, content \in FileInputs, user \in Users,
          commit1 \in BOOLEAN, commit2 \in BOOLEAN :
          upload_consent(id, content, user, commit1, commit2)
    \/ Registry

SpecRegistry == InitRegistry /\ [][NextRegistry]_vars

\* The patient register under requests served beside one another.
NextPatients ==
    \/ Lifespan
    \/ \E patient \in PatientSubmissions : CreatePatientQuery(patient)
    \/ \E k \in 1..MaxPatientCalls, committed \in BOOLEAN :
          CreatePatientCommit(k, committed)

SpecPatients == InitRegistry /\ [][NextPatients]_vars

\* The claim builder over every kind of stored procedure row.
InitClaims ==
    /\ env = [PRACTITIONER_PRIVATE_KEY |-> FALSE, CONTRACT_ADDRESS |-> FALSE]
    /\ phase = "running"
    /\ web3 = "None"
    /\ contract = "None"
    /\ ledger_up = FALSE
    /\ chain = <<>>
    /\ patients = <<NewPatient(1, [patient_hash |-> "ha", first_name_hash |-> None,
                                   last_name_hash |-> None, birth_date_hash |-> None])>>
    /\ procedures \in {<<row>> : row \in StoredProcedures}
    /\ consents = <<>>
    /\ fhir_resources = <<>>
    /\ calls = <<>>
    /\ patient_calls = <<>>
    /\ resp = Response("none", "none", None)

SpecClaims == InitClaims /\ [][Registry]_vars

\* The bundle builder over lists of documents of the stored rows.
NextBundle ==
    \E resources \in DocumentLists, bundle_type \in BundleTypes, utcnow \in Instants :
        BuildBundle(resources, bundle_type, utcnow)

\* The builders take the procedure type as they find it; one is enough here.
InitBundle == InitClaims /\ procedures[1].procedure_type = "stent"

SpecBundle == InitBundle /\ [][NextBundle]_vars

\* Ids a client asks get_fhir_resource for: the keys the generate endpoints
\* store under, and the ids the documents carry.
DocumentIdInputs ==
    ResourceIdInputs \cup {"patient-ha", "ha", "practitioner-1", "1"}

\* The three generate endpoints and the lookup, over the stored rows.
NextDocuments ==
    \/ \E id \in 1..MaxCalls, committed \in BOOLEAN : generate_fhir_claim(id, committed)
    \/ \E h \in PatientHashInputs, committed \in BOOLEAN :
          generate_fhir_patient(h, committed)
    \/ \E u \in Users \cup {0}, committed \in BOOLEAN :
          generate_fhir_practitioner(u, committed)
    \/ \E rid \in DocumentIdInputs, k \in 1..MaxDocs : get_fhir_resource(rid, k)

SpecDocuments == InitBundle /\ [][NextDocuments]_vars

\* The read side of the ledger client; reads take no signing credential.
InitReads == Init /\ ~env.PRACTITIONER_PRIVATE_KEY

NextReads ==
    \/ Lifespan
    \/ LedgerOutage
    \/ \E id \in LedgerIds, exc \in CallErrors \cup {"none"} :
          get_procedure_from_blockchain(id, exc)
    \/ \E ids \in IdLists, exc \in CallErrors \cup {"none"} :
          \E failing \in SUBSET Range(ids) :
              get_patient_procedures_from_blockchain(ids, failing, exc)
    \/ \E ids \in IdLists, exc \in CallErrors \cup {"none"} :
          \E failing \in SUBSET Range(ids) :
              get_practitioner_procedures_from_blockchain(ids, failing, exc)
    \/ \E answer \in BOOLEAN, exc \in CallErrors \cup {"none"} :
          is_practitioner(answer, exc)
    \/ \E answer \in 0..Cardinality(LedgerIds), exc \in CallErrors \cup {"none"} :
          get_total_procedures(answer, exc)

SpecReads == InitReads /\ [][NextReads]_vars

-----------------------------------------------------------------------------
(* Properties of create_procedure *)

Done == {c \in 1..Len(calls) : calls[c].pc = "done"}

\* The call created and committed its row.
Persisted(c) == calls[c].row # 0

\* The ledger submission of call c failed: init_web3 raised, or
\* record_procedure_on_blockchain returned {"success": False, ...}.
LedgerFailed(c) ==
    \/ calls[c].logged \in {Some("ValueError"), Some("ConnectionError")}
    \/ calls[c].result # None /\ ~Get(calls[c].result).success

LedgerFieldsAbsent(r) == r.blockchain_id = None /\ r.blockchain_tx_hash = None

\* The calls that created row id.
Creator(id) == {c \in 1..Len(calls) : calls[c].row = id}

\* C1: a create_procedure call that passed validation, committed its row and
\* whose ledger submission failed (client not initialisable, ledger
\* unreachable, gas estimation, signing, sending, waiting for inclusion)
\* answers 200 with the record it persisted, ledger fields absent in the
\* answer and in the table; no exception leaves the handler.
C1_LedgerFailureIsNotFatal ==
    \A c \in Done :
        Persisted(c) /\ LedgerFailed(c) =>
            /\ calls[c].response = "200"
            /\ calls[c].obj # None
            /\ Get(calls[c].obj).id = calls[c].row
            /\ LedgerFieldsAbsent(Get(calls[c].obj))
            /\ calls[c].row \in 1..Len(procedures)
            /\ LedgerFieldsAbsent(procedures[calls[c].row])

\* The client could not be initialised (endpoint unreachable) and the call
\* answered all the same.
C1_Witness ==
    \E c \in Done :
        /\ Persisted(c)
        /\ calls[c].logged = Some("ConnectionError")
        /\ calls[c].response = "200"

\* C2: the local commit comes first.  Every transaction the node got comes
\* from a call whose row is in the table, a call is at its ledger step only
\* with its row committed, and a call whose first commit failed made no
\* submission and did not answer 200.
C2_LocalCommitFirst ==
    /\ \A i \in 1..Len(chain) :
          /\ chain[i].call \in 1..Len(calls)
          /\ calls[chain[i].call].row \in 1..Len(procedures)
    /\ \A c \in 1..Len(calls) :
          /\ calls[c].pc \in {"ledger", "wait"} => calls[c].row \in 1..Len(procedures)
          /\ ~Persisted(c) =>
                /\ calls[c].pc = "done"
                /\ calls[c].response # "200"
                /\ calls[c].sends = 0
                /\ calls[c].tx = 0
                /\ calls[c].result = None

\* One call failed at its first commit (500) while another one submitted.
C2_Witness ==
    /\ \E c \in Done : ~Persisted(c) /\ calls[c].response = "500"
    /\ Len(chain) >= 1

\* C3: with no PRACTITIONER_PRIVATE_KEY configured no call reaches
\* record_procedure_on_blockchain (no transaction, no result, nothing logged)
\* and every record has both ledger fields absent.
C3_NoCredentialNoSubmit ==
    ~env.PRACTITIONER_PRIVATE_KEY =>
        /\ chain = <<>>
        /\ \A c \in 1..Len(calls) :
              /\ calls[c].sends = 0
              /\ calls[c].tx = 0
              /\ calls[c].result = None
              /\ calls[c].logged = None
              /\ calls[c].pc # "wait"
              /\ calls[c].obj # None => LedgerFieldsAbsent(Get(calls[c].obj))
        /\ \A id \in 1..Len(procedures) : LedgerFieldsAbsent(procedures[id])

\* No credential, and a call has created its record and answered.
C3_Witness ==
    /\ ~env.PRACTITIONER_PRIVATE_KEY
    /\ \E c \in Done : Persisted(c) /\ calls[c].response = "200"

\* Each call sends at most one transaction.
C4_AtMostOnce ==
    \A c \in 1..Len(calls) :
        /\ calls[c].sends <= 1
        /\ Cardinality({i \in 1..Len(chain) : chain[i].call = c}) <= 1

\* A record whose call is over with the ledger fields absent keeps them absent
\* in the next state.
C4_AbsentStaysAbsent ==
    \A id \in 1..Len(procedures) :
        (LedgerFieldsAbsent(procedures[id]) /\ Creator(id) \subseteq Done)
            => /\ id \in 1..Len(procedures')
               /\ LedgerFieldsAbsent(procedures'[id])

\* C4: a create_procedure call sends at most one transaction to the ledger (no
\* retry after a failure), and a record whose call is over with the ledger
\* fields absent keeps them absent in every later step of the system.
C4_OneAttemptNoRetry == []C4_AtMostOnce /\ [][C4_AbsentStaysAbsent]_vars

\* The call gave up waiting, answered with the ledger fields absent, and the
\* transaction it had sent was included afterwards: the record stays as it is.
C4_Witness ==
    \E c \in Done :
        /\ Persisted(c)
        /\ calls[c].sends = 1
        /\ chain[calls[c].tx].status = "ok"
        /\ LedgerFieldsAbsent(procedures[calls[c].row])

\* C5: a blockchain_id that is present is the record's own id, in the table
\* and in the record a call returns.
C5_LedgerIdIsLocalId ==
    /\ \A id \in 1..Len(procedures) :
          procedures[id].blockchain_id # None =>
              Get(procedures[id].blockchain_id) = procedures[id].id
    /\ \A c \in 1..Len(calls) :
          (calls[c].obj # None /\ Get(calls[c].obj).blockchain_id # None) =>
              Get(Get(calls[c].obj).blockchain_id) = Get(calls[c].obj).id

\* The second record is anchored, the first one is not.
C5_Witness ==
    /\ Len(procedures) = 2
    /\ procedures[1].blockchain_id = None
    /\ procedures[2].blockchain_id = Some(2)

\* The transaction record r points to: sent by the call that created r, and
\* the one whose hash that call's submit returned.
SubmittedBy(r) ==
    \E c \in Creator(r.id), i \in 1..Len(chain) :
        /\ chain[i].call = c
        /\ calls[c].tx = i
        /\ r.blockchain_tx_hash = Some(TxHash(i))
        /\ r.blockchain_id # None

\* C6: a record with a ledger field set points to a transaction that its own
\* create_procedure call sent, under the hash that submit returned; every
\* record, with or without ledger fields, is found under its id.
C6_LedgerFieldsReflectSubmission ==
    /\ \A id \in 1..Len(procedures) :
          /\ ProcedureById(id) = Some(procedures[id])
          /\ procedures[id].id = id
          /\ ~LedgerFieldsAbsent(procedures[id]) => SubmittedBy(procedures[id])
    /\ \A c \in 1..Len(calls) :
          (calls[c].obj # None /\ ~LedgerFieldsAbsent(Get(calls[c].obj)))
              => SubmittedBy(Get(calls[c].obj))

\* Two calls have sent a transaction each and the first one's record carries
\* the hash of the first transaction.
C6_Witness ==
    /\ Len(chain) = 2
    /\ chain[1].call # chain[2].call
    /\ \E id \in 1..Len(procedures) :
          /\ procedures[id].blockchain_tx_hash = Some(TxHash(1))
          /\ Creator(id) = {chain[1].call}

\* C7: a record has its ledger fields set only if the transaction of its call
\* was included without revert.
C7_ConfirmedOnlyIfNotReverted ==
    \A id \in 1..Len(procedures) :
        ~LedgerFieldsAbsent(procedures[id]) =>
            \A c \in Creator(id) :
                calls[c].tx # 0 /\ chain[calls[c].tx].status = "ok"

\* A commit of call c failed: the first one, or the one that stamps the
\* ledger outcome.
CommitFailed(c) ==
    \/ ~Persisted(c) /\ calls[c].response = "500"
    \/ calls[c].logged = Some("commit")

\* C8: a create_procedure call in which a commit failed, the first or the one
\* that stamps the ledger outcome, does not answer 200.
C8_PersistenceErrorSurfaced ==
    \A c \in Done : CommitFailed(c) => calls[c].response # "200"

\* 400: type outside PROCEDURE_TYPES, 404: unknown patient, 422: duration <= 0
ValidationStatus == {"400", "404", "422"}

\* The step that answers a request with a validation error.
C9_RejectingStep ==
    (Len(calls') = Len(calls) + 1 /\ calls'[Len(calls')].response \in ValidationStatus) =>
        /\ procedures' = procedures
        /\ patients' = patients
        /\ consents' = consents
        /\ fhir_resources' = fhir_resources
        /\ chain' = chain
        /\ calls'[Len(calls')].row = 0
        /\ calls'[Len(calls')].sends = 0

\* C9: the step in which create_procedure rejects a request with a validation
\* error (422, 400, 404) changes no table and sends nothing to the ledger, and
\* the rejected call has created no row.
C9_ValidationErrorWritesNothing == [][C9_RejectingStep]_vars

\* A request for an unknown patient was rejected while a record exists.
C9_Witness ==
    /\ Len(procedures) >= 1
    /\ \E c \in Done : calls[c].response = "404" /\ ~Persisted(c)

-----------------------------------------------------------------------------
(* Properties of the document registry *)

Last(S) == CHOOSE k \in S : \A j \in S : j <= k

\* C10: the registry holds at most one row under a resource_id, so a lookup
\* by id has one answer, the payload generated last.
C10_RegistryUpsert ==
    \A rid \in ResourceIdInputs :
        /\ Cardinality(Matching(rid)) <= 1
        /\ \A k \in Matching(rid) :
              fhir_resources[k].fhir_data = fhir_resources[Last(Matching(rid))].fhir_data

-----------------------------------------------------------------------------
(* Properties of the patient register *)

C11_Unique ==
    \A i \in 1..Len(patients), j \in 1..Len(patients) :
        i # j => patients[i].patient_hash # patients[j].patient_hash

\* No step changes or removes an existing row.
C11_Immutable ==
    \A i \in 1..Len(patients) :
        i \in 1..Len(patients') /\ patients'[i] = patients[i]

\* The calls that answer in this step.
Answering ==
    {k \in 1..Len(patient_calls') :
        /\ patient_calls'[k].pc = "done"
        /\ k \in 1..Len(patient_calls) => patient_calls[k].pc # "done"}

\* A call that answers while its hash is registered is rejected and the table
\* stays as it is.
C11_Rejects ==
    \A k \in Answering :
        PatientExists(patient_calls'[k].input.patient_hash) =>
            /\ patient_calls'[k].response \in {"400", "500"}
            /\ patients' = patients

\* C11: no two rows of patients share a patient_hash, also when create_patient
\* calls for one hash run beside one another; no step changes an existing
\* row; a create_patient for a registered hash is rejected (400 from the
\* query, or 500 from the unique constraint at commit) and changes nothing.
C11_PatientHashUniqueImmutable ==
    []C11_Unique /\ [][C11_Immutable /\ C11_Rejects]_vars

\* Two calls for one hash both passed the query; one inserted the row, the
\* other one failed at commit on the unique constraint.
C11_Witness ==
    \E k1 \in 1..Len(patient_calls), k2 \in 1..Len(patient_calls) :
        /\ patient_calls[k1].input.patient_hash = patient_calls[k2].input.patient_hash
        /\ patient_calls[k1].response = "200"
        /\ patient_calls[k2].raised = "IntegrityError"
        /\ Len(patients) = 1

\* Output of the pseudonymisation hash.
IsDigest(s) == \E x \in IdentityInputs : s = hash_patient_data(x)

\* C12: every stored Patient row carries digests only: patient_hash, and the
\* name / birth-date fields that are present, are outputs of the
\* pseudonymisation hash.
C12_OnlyDigestsStored ==
    \A p \in Rows(patients) :
        /\ IsDigest(p.patient_hash)
        /\ \A f \in {p.first_name_hash, p.last_name_hash, p.birth_date_hash} :
              f # None => IsDigest(Get(f))

-----------------------------------------------------------------------------
(* Properties of the ledger client *)

\* The calls that entered record_procedure_on_blockchain and left it.
LeftSubmit ==
    {c \in Done : Persisted(c) /\ env.PRACTITIONER_PRIVATE_KEY}

\* C13: record_procedure_on_blockchain never raises: every call that entered
\* it got a value back, the success dictionary or {"success": False, ...},
\* and no exception of init_web3 came out of it.
C13_SubmitNeverRaises ==
    \A c \in LeftSubmit :
        /\ calls[c].result # None
        /\ calls[c].logged \notin {Some("ValueError"), Some("ConnectionError")}

ListOps ==
    {"get_patient_procedures_from_blockchain",
     "get_practitioner_procedures_from_blockchain"}

ReadOps ==
    ListOps \cup {"get_procedure_from_blockchain", "is_practitioner",
                  "get_total_procedures"}

\* The ids of the list whose resolution did not fail, in list order.
Resolving(ids, failing) == SelectSeq(ids, LAMBDA id : id \notin failing)

\* C14: when the listing call answers, fetchByPatient and fetchByPractitioner
\* return one record per listed id that resolves, in the order of the list;
\* an id that does not resolve is left out and the ids after it are still
\* resolved.
C14_FailedIdsSkipped ==
    (resp.op \in ListOps /\ resp.status = "returned"
        /\ Get(resp.body).error = "none") =>
        LET log == Get(resp.body)
            expected == Resolving(log.request.ids, log.request.failing)
        IN  /\ Len(log.value) = Len(expected)
            /\ \A i \in 1..Len(expected) : log.value[i].id = expected[i]

\* Three ids listed, the second one does not resolve, the first and the
\* third are returned.
C14_Witness ==
    /\ resp.op \in ListOps
    /\ resp.status = "returned"
    /\ Get(resp.body).error = "none"
    /\ Len(Get(resp.body).request.ids) = 3
    /\ Get(resp.body).request.ids[2] \in Get(resp.body).request.failing
    /\ Get(resp.body).request.ids[1] \notin Get(resp.body).request.failing
    /\ Get(resp.body).request.ids[3] \notin Get(resp.body).request.failing
    /\ Len(Get(resp.body).value) = 2

\* The empty / absent result of each read function.
EmptyResult(op) ==
    CASE op = "get_procedure_from_blockchain" -> None
      [] op \in ListOps -> <<>>
      [] op = "is_practitioner" -> FALSE
      [] op = "get_total_procedures" -> 0

\* C15: a read function called with the client initialised returns, and when
\* its contract call failed (transport error or revert) what it returns is the
\* empty result of the function: None, [], False, 0.
C15_ReadsNeverPropagate ==
    (resp.op \in ReadOps /\ Get(resp.body).initialised) =>
        /\ resp.status = "returned"
        /\ Get(resp.body).error # "none" =>
              Get(resp.body).value = EmptyResult(resp.op)

\* The endpoint went away after the client was initialised and a read
\* returned its empty result.
C15_Witness ==
    /\ resp.op = "get_total_procedures"
    /\ Get(resp.body).initialised
    /\ Get(resp.body).error = "ConnectionError"
    /\ resp.status = "returned"
    /\ Get(resp.body).value = 0

-----------------------------------------------------------------------------
(* Properties of the claim builder *)

\* The claim documents of the registry, each with the row it was built from.
BuiltClaims ==
    {b \in {[claim |-> json_loads(fhir_resources[k].fhir_data),
             procedure |-> procedures[id]] :
                k \in {j \in 1..Len(fhir_resources) :
                         fhir_resources[j].resource_type = "Claim"},
                id \in 1..Len(procedures)} :
        b.claim.id = "claim-" \o ToString(b.procedure.id)}

\* The record has the hash: the column is set, and not to the empty string
\* (the way a create_procedure request says "no consent hash").
HasHash(o) == o # None /\ Get(o) # ""

\* C16: a built claim has a meta.extension entry whose valueString is the
\* record's blockchain_tx_hash exactly when the record has one; without a
\* hash the claim has no meta.extension.
C16_ProvenanceIffLedgerHash ==
    \A b \in BuiltClaims :
        IF HasHash(b.procedure.blockchain_tx_hash)
        THEN /\ "extension" \in DOMAIN b.claim.meta
             /\ \E i \in 1..Len(b.claim.meta.extension) :
                   b.claim.meta.extension[i].valueString
                       = Get(b.procedure.blockchain_tx_hash)
        ELSE "extension" \notin DOMAIN b.claim.meta

\* A claim of an anchored record is stored, with its provenance entry.
C16_Witness ==
    \E b \in BuiltClaims :
        /\ b.procedure.blockchain_tx_hash = Some("0x1")
        /\ "extension" \in DOMAIN b.claim.meta

\* C17: a built claim has a supportingInfo entry whose valueString is the
\* record's consent_hash exactly when the record has one; without a consent
\* hash the claim has no supportingInfo section.
C17_SupportingInfoIffConsentHash ==
    \A b \in BuiltClaims :
        IF HasHash(b.procedure.consent_hash)
        THEN /\ "supportingInfo" \in DOMAIN b.claim
             /\ \E i \in 1..Len(b.claim.supportingInfo) :
                   b.claim.supportingInfo[i].valueString
                       = Get(b.procedure.consent_hash)
        ELSE "supportingInfo" \notin DOMAIN b.claim

\* The scenario of the specification: type stent, no consent hash, no ledger
\* hash; the claim has the stent code and neither section.
C17_Witness ==
    \E b \in BuiltClaims :
        /\ b.procedure.procedure_type = "stent"
        /\ ~HasHash(b.procedure.consent_hash)
        /\ ~HasHash(b.procedure.blockchain_tx_hash)
        /\ b.claim.procedure[1].procedureCodeableConcept.coding[1].code = "384692006"
        /\ "supportingInfo" \notin DOMAIN b.claim
        /\ "extension" \notin DOMAIN b.claim.meta

\* C18: validate_fhir_claim finds every built claim valid, with no error,
\* whatever the procedure type and whichever hashes are present.
C18_BuiltClaimIsValid ==
    \A b \in BuiltClaims :
        /\ validate_fhir_claim(b.claim).valid
        /\ validate_fhir_claim(b.claim).errors = <<>>

\* A claim built for a type outside the vocabulary, with both hashes.
C18_Witness ==
    \E b \in BuiltClaims :
        /\ b.procedure.procedure_type = "thrombectomie"
        /\ HasHash(b.procedure.consent_hash)
        /\ HasHash(b.procedure.blockchain_tx_hash)
        /\ validate_fhir_claim(b.claim).valid

\* The default coded concept.
DefaultTriple ==
    [code |-> "261190007", display |-> "Percutaneous puncture",
     system |-> "http://snomed.info/sct"]

\* The type is a key of the mapping, letter case aside.
Recognised(t) == \E key \in DOMAIN SNOMED_PROCEDURE_CODES : Lower(t) = key

\* The coded concept a claim embeds.
EmbeddedCoding(claim) == claim.procedure[1].procedureCodeableConcept.coding[1]

\* C19: the catalog lookup is total.  A type that the mapping does not
\* recognise resolves to the default triple (261190007, Percutaneous
\* puncture, SNOMED), a type of the vocabulary resolves to its own triple,
\* and the coding a built claim embeds is the one get_snomed_code returns.
C19_CatalogLookupTotal ==
    /\ \A t \in StoredTypes :
          /\ ~Recognised(t) => get_snomed_code(t) = DefaultTriple
          /\ t \in PROCEDURE_TYPES => get_snomed_code(t) = SNOMED_PROCEDURE_CODES[t]
    /\ \A b \in BuiltClaims :
          LET t == b.procedure.procedure_type
          IN  /\ EmbeddedCoding(b.claim) = get_snomed_code(t)
              /\ EmbeddedCoding(b.claim) = b.claim.item[1].productOrService[1]
              /\ ~Recognised(t) => EmbeddedCoding(b.claim) = DefaultTriple
              /\ t \in PROCEDURE_TYPES =>
                    EmbeddedCoding(b.claim) = SNOMED_PROCEDURE_CODES[t]

\* A claim built for a type outside the vocabulary carries the default code.
C19_Witness ==
    \E b \in BuiltClaims :
        /\ b.procedure.procedure_type = "thrombectomie"
        /\ EmbeddedCoding(b.claim).code = "261190007"

\* The request with its procedure type in lower case.
Lowered(input) == [input EXCEPT !.procedure_type = Lower(@)]

\* C20: procedure types that differ only in letter case are handled alike:
\* the catalog gives them one triple, and create_procedure's vocabulary check
\* gives a request (positive duration, registered patient) the answer it
\* gives the same request in lower case.
C20_CaseInsensitive ==
    \A input \in ProcedureCreate :
        /\ get_snomed_code(input.procedure_type)
              = get_snomed_code(Lower(input.procedure_type))
        /\ (input.duration > 0 /\ PatientExists(input.patient_hash)) =>
              ValidationError(input) = ValidationError(Lowered(input))

-----------------------------------------------------------------------------
(* Properties of upload_consent and of the records *)

\* An upload_consent call answers in this step.
ConsentAnswered == resp'.op = "upload_consent" /\ resp' # resp

\* The row the procedure has in this state, or None.
OwnerOf(procedure_id) ==
    IF ProcedureById(procedure_id) = None THEN 0
    ELSE Get(ProcedureById(procedure_id)).practitioner_id

\* The consent state changes in this step: a Consent row is added or the
\* consent_hash of a procedure changes.
ConsentChanges ==
    \/ consents' # consents
    \/ \E id \in 1..Len(procedures) :
          id \in 1..Len(procedures')
              /\ procedures'[id].consent_hash # procedures[id].consent_hash

C21_Step ==
    /\ ConsentAnswered =>
          LET request == Get(resp'.body)
          IN  /\ ProcedureById(request.procedure_id) = None =>
                    resp'.status = "404" /\ ~ConsentChanges
              /\ (ProcedureById(request.procedure_id) # None
                     /\ OwnerOf(request.procedure_id) # request.user) =>
                    resp'.status = "403" /\ ~ConsentChanges
    /\ ConsentChanges =>
          /\ resp'.op = "upload_consent"
          /\ OwnerOf(Get(resp'.body).procedure_id) = Get(resp'.body).user

\* C21: an upload_consent call for a procedure that does not exist answers
\* 404, a call by a principal other than the procedure's practitioner answers
\* 403, and neither adds a Consent row nor changes a consent_hash; the
\* consent state changes only in a call by the owner.
C21_OnlyOwnerUploads == [][C21_Step]_vars

\* A principal other than the practitioner of an anchored procedure was
\* answered 403 and the record still carries the consent hash of its creation.
C21_Witness ==
    /\ resp.op = "upload_consent"
    /\ resp.status = "403"
    /\ consents = <<>>
    /\ ProcedureById(Get(resp.body).procedure_id) # None
    /\ OwnerOf(Get(resp.body).procedure_id) # Get(resp.body).user
    /\ Get(ProcedureById(Get(resp.body).procedure_id)).consent_hash = Some("c0")
    /\ Get(ProcedureById(Get(resp.body).procedure_id)).blockchain_id # None

-----------------------------------------------------------------------------
(* Properties of create_procedure calls that run beside one another *)

\* The transactions of the node that call c sent.
OwnChain(c) == SelectSeq(chain, LAMBDA tx : tx.call = c)

\* The calls about to submit: credential present, client initialised or
\* initialisable, so that the try block of record_procedure_on_blockchain runs.
Submitting ==
    {c \in 1..Len(calls) :
        /\ calls[c].pc = "ledger"
        /\ SigningCredentialPresent
        /\ (contract # "None" \/ init_web3.raised = "none")}

\* C22: create_procedure calls for distinct procedures are independent.  Each
\* call that committed has its own row, a row's ledger fields come from its
\* own call's submission, and what the submission of a call can end in is
\* what it could end in had the other calls sent nothing to the ledger.
C22_CallsIndependent ==
    /\ \A c1 \in 1..Len(calls), c2 \in 1..Len(calls) :
          (c1 # c2 /\ Persisted(c1) /\ Persisted(c2)) => calls[c1].row # calls[c2].row
    /\ \A id \in 1..Len(procedures) :
          ~LedgerFieldsAbsent(procedures[id]) => SubmittedBy(procedures[id])
    /\ \A c \in Submitting : SubmitOutcomes(chain) = SubmitOutcomes(OwnChain(c))

-----------------------------------------------------------------------------
(* Termination of create_procedure *)

\* A call whose wait for the receipt ran out ends as any ledger failure:
\* 200, with the record and its ledger fields absent.
TimeoutIsFailure ==
    \A c \in Done :
        calls[c].result = Some(Failure("wait_for_transaction_receipt")) =>
            /\ calls[c].response = "200"
            /\ calls[c].obj # None
            /\ LedgerFieldsAbsent(Get(calls[c].obj))

-----------------------------------------------------------------------------
(* What each operation may change in the tables patients and procedures *)

\* The operation that ran in the step, for the handlers that answer at once.
Answers(op) == resp' # resp /\ resp'.op = op

\* Some create_procedure call received the receipt of its transaction.
ReceiptStep ==
    \E c \in 1..Len(calls) : calls[c].pc = "wait" /\ calls'[c].pc = "done"

SameButLedgerOutcome(old, new) ==
    [new EXCEPT !.blockchain_id = old.blockchain_id,
                !.blockchain_tx_hash = old.blockchain_tx_hash] = old

SameButConsentHash(old, new) ==
    [new EXCEPT !.consent_hash = old.consent_hash] = old

C24_Step ==
    /\ Len(patients') >= Len(patients)
    /\ Len(procedures') >= Len(procedures)
    /\ \A k \in 1..Len(patients) : patients'[k] = patients[k]
    /\ \A id \in 1..Len(procedures) :
          procedures'[id] # procedures[id] =>
              \/ ReceiptStep /\ SameButLedgerOutcome(procedures[id], procedures'[id])
              \/ /\ Answers("upload_consent")
                 /\ SameButConsentHash(procedures[id], procedures'[id])
    /\ \A op \in {"generate_fhir_claim", "get_fhir_resource", "get_procedures",
                   "get_procedure_from_blockchain"} :
          Answers(op) => procedures' = procedures /\ patients' = patients

-----------------------------------------------------------------------------
(* Properties of create_fhir_bundle *)

\* The call that has just returned: the list it was given and its bundle.
Bundled(r) == r.op = "create_fhir_bundle"

C25_Step ==
    Bundled(resp') =>
        LET resources == Get(resp'.body).resources
            bundle == Get(resp'.body).bundle
        IN  /\ Len(bundle.entry) = Len(resources)
            /\ bundle.total = Len(resources)
            /\ \A i \in 1..Len(resources) :
                  /\ bundle.entry[i].resource = resources[i]
                  /\ bundle.entry[i].fullUrl =
                        resources[i].resourceType \o "/" \o resources[i].id
            /\ (Bundled(resp) /\ Get(resp.body).resources = resources) =>
                    Get(resp.body).bundle.id = bundle.id

-----------------------------------------------------------------------------
(* The ledger-side id as a reference into the ledger *)

\* Records whose ledger id is set and whose transaction was executed.
Anchored ==
    {id \in 1..Len(procedures) :
        /\ procedures[id].blockchain_id # None
        /\ \E c \in Creator(id) :
              calls[c].tx # 0 /\ chain[calls[c].tx].status = "ok"}

\* C26: for every record whose blockchain_id is present, the ledger entry
\* found under that blockchain_id is the one submitted for this record (same
\* patient hash, type, duration), also when other submissions were skipped or
\* failed; the ledger numbers its entries itself.
C26_LedgerIdIsCrossReference ==
    \A id \in Anchored :
        LET entry == getProcedure(chain, Get(procedures[id].blockchain_id))
        IN  /\ entry # None
            /\ Get(entry).patient_hash = procedures[id].patient_hash
            /\ Get(entry).procedure_type = procedures[id].procedure_type
            /\ Get(entry).duration = procedures[id].duration
            /\ \E c \in Creator(id) :
                  LedgerEntryId(chain, calls[c].tx)
                      = Get(procedures[id].blockchain_id)

-----------------------------------------------------------------------------
(* The two ledger fields of a record *)

BothOrNeither(r) == (r.blockchain_id # None) <=> (r.blockchain_tx_hash # None)

\* C27: in every reachable state blockchain_id is present if and only if
\* blockchain_tx_hash is present, in every row of the table and in every
\* record a create_procedure call holds or has returned.
C27_LedgerFieldsSetTogether ==
    /\ \A id \in 1..Len(procedures) : BothOrNeither(procedures[id])
    /\ \A c \in 1..Len(calls) :
          calls[c].obj # None => BothOrNeither(Get(calls[c].obj))

\* One record has both fields, and was returned with both; another has neither.
C27_Witness ==
    \E a, b \in 1..Len(procedures) :
        /\ procedures[a].blockchain_id # None
        /\ procedures[a].blockchain_tx_hash # None
        /\ \E c \in Done : calls[c].obj = Some(procedures[a])
        /\ procedures[b].blockchain_id = None
        /\ procedures[b].blockchain_tx_hash = None

-----------------------------------------------------------------------------
(* The consent hash of an anchored record *)

\* The transaction the call that created record id sent for it.
TransactionOf(id) == chain[calls[CHOOSE c \in Creator(id) : calls[c].tx # 0].tx]

\* C28: for every record whose ledger fields are set, after any later
\* operation (upload_consent among them), the consent_hash of the local
\* record is the consent hash that was submitted to the ledger for it.
C28_ConsentHashAsAnchored ==
    \A id \in Anchored :
        procedures[id].consent_hash = Some(TransactionOf(id).args.consent_hash)

-----------------------------------------------------------------------------
(* The key a document is stored under *)

\* C29: every document a generate endpoint stores is stored under the
\* (resourceType, id) of the document itself, for Claim, Patient and
\* Practitioner documents alike.
C29_StoredUnderOwnKey ==
    \A k \in 1..Len(fhir_resources) :
        LET document == json_loads(fhir_resources[k].fhir_data)
        IN  /\ fhir_resources[k].resource_type = document.resourceType
            /\ fhir_resources[k].resource_id = document.id

-----------------------------------------------------------------------------
(* Well-formed procedure records *)

WellFormed(r) ==
    /\ PatientExists(r.patient_hash)
    /\ r.practitioner_id \in Users
    /\ r.procedure_type \in PROCEDURE_TYPES
    /\ r.duration \in Nat \ {0}

\* A row that appears is the row of the call that has just begun, with the
\* principal of that call; the four fields of a row never change afterwards.
C30_Step ==
    /\ Len(procedures') > Len(procedures) =>
          /\ Len(procedures') = Len(procedures) + 1
          /\ Len(calls') = Len(calls) + 1
          /\ calls'[Len(calls')].row = Len(procedures')
          /\ procedures'[Len(procedures')].practitioner_id = calls'[Len(calls')].user
    /\ \A id \in 1..Len(procedures) :
          /\ id \in 1..Len(procedures')
          /\ procedures'[id].patient_hash = procedures[id].patient_hash
          /\ procedures'[id].practitioner_id = procedures[id].practitioner_id
          /\ procedures'[id].procedure_type = procedures[id].procedure_type
          /\ procedures'[id].duration = procedures[id].duration

====
